---- MODULE Spec2Model ----
(***************************************************************************)
(* Model of the PMSx003 particulate-matter sensor driver (src/src/lib.rs). *)
(*                                                                         *)
(* The driver owns a byte transport (embedded-io Read + Write).  The       *)
(* transport's pending input is the sequence rx, the bytes the driver has  *)
(* written are the sequence tx.  Every public operation of PmsX003Sensor   *)
(* is a chain of steps, one per blocking transport call, and pc is the     *)
(* position of the running operation inside that chain.                    *)
(*                                                                         *)
(* The frame codec (create_command, OutputFrame::from_buffer) is pure and  *)
(* is modelled by operators; CodecSpec applies them to inputs drawn from   *)
(* bounded sets.                                                           *)
(***************************************************************************)
EXTENDS Integers, Sequences, FiniteSets, TLC

VARIABLES
    rx,        \* transport: bytes delivered by the sensor and not yet read
    tx,        \* transport: bytes it accepted from the running (or last) operation
    pc,        \* position of the running operation
    op,        \* the operation running (or the last one run)
    buf,       \* the buffer read_from_device fills
    result,    \* what the last operation returned: [kind, err]
    frame,     \* the OutputFrame read() returned: <<>> or <<record>>
    rx0,       \* history: rx when the operation was called
    nread,     \* history: bytes taken from rx by the operation so far
    start,     \* history: index in rx0 of the 0x42 last accepted as MN1
    nops,      \* history: number of operations called
    io,        \* history: how the operation's last transport call ended
    prevRead,  \* history: the buffer of the operation before, if a read() that returned Ok
    link,      \* transport: what a read does when no byte is pending
    codecIn,   \* codec: the input the codec function was applied to
    codecOut   \* codec: what it returned

vars == <<rx, tx, pc, op, buf, result, frame, rx0, nread, start, nops,
          io, prevRead, link, codecIn, codecOut>>

engineVars == <<rx, tx, pc, op, buf, result, frame, rx0, nread, start, nops,
                io, prevRead, link>>
codecVars == <<codecIn, codecOut>>

(***************************************************************************)
(* Bounds of the model.                                                    *)
(***************************************************************************)
MaxNoise == 2      \* longest run of noise bytes in front of the first frame
MaxSeed == 1       \* measurement frame bodies are generated from seeds 0..MaxSeed
MaxOps == 2        \* operations called in one behaviour

(***************************************************************************)
(* Program constants.                                                      *)
(***************************************************************************)
CMD_FRAME_SIZE == 7
OUTPUT_FRAME_SIZE == 32
RESPONSE_FRAME_SIZE == 8
CHECKSUM_SIZE == 2
MN1 == 66          \* 0x42
MN2 == 77          \* 0x4D

PASSIVE_MODE_RESPONSE == <<MN1, MN1, 0, 4, 225, 0, 1, 116>>
\* Mutant of ACTIVE_MODE_RESPONSE: the second magic number mistyped as MN1.
ACTIVE_MODE_RESPONSE_mn1_twice == <<MN1, MN1, 0, 4, 225, 1, 1, 117>>
ACTIVE_MODE_RESPONSE == <<MN1, MN2, 0, 4, 225, 1, 1, 117>>
SLEEP_RESPONSE == <<MN1, MN2, 0, 4, 228, 0, 1, 119>>

U16 == 65536

(***************************************************************************)
(* Byte helpers.                                                           *)
(***************************************************************************)
RECURSIVE SumBytes(_)
SumBytes(s) == IF s = <<>> THEN 0 ELSE Head(s) + SumBytes(Tail(s))

Take(s, n) == SubSeq(s, 1, IF n < Len(s) THEN n ELSE Len(s))
Drop(s, n) == SubSeq(s, n + 1, Len(s))
Zeros(n) == [i \in 1..n |-> 0]

\* Mutant of to_be_bytes: the low byte first (to_le_bytes).
to_le_bytes(v) == <<v % 256, v \div 256>>

\* u16::to_be_bytes
to_be_bytes(v) == <<v \div 256, v % 256>>
\* Mutant of from_be_bytes: the first byte is the low one (from_le_bytes).
from_le_bytes(hi, lo) == lo * 256 + hi

\* u16::from_be_bytes
from_be_bytes(hi, lo) == hi * 256 + lo

(***************************************************************************)
(* Frame codec.                                                            *)
(***************************************************************************)
\* Mutant of CommandChecksum: the sum is accumulated in a u8.
CommandChecksum_u8(buffer) ==
    SumBytes(Take(buffer, CMD_FRAME_SIZE - CHECKSUM_SIZE)) % 256

\* create_command: the checksum is the u16 sum of the first
\* CMD_FRAME_SIZE - CHECKSUM_SIZE bytes of the buffer.
CommandChecksum(buffer) ==
    SumBytes(Take(buffer, CMD_FRAME_SIZE - CHECKSUM_SIZE)) % U16

create_command(cmd, data) ==
    LET head == <<MN1, MN2, cmd>> \o to_be_bytes(data)
        buffer == head \o Zeros(CHECKSUM_SIZE)
    IN  head \o to_be_bytes(CommandChecksum(buffer))

\* OutputFrame::from_buffer: the sum (a usize) of the first
\* OUTPUT_FRAME_SIZE - CHECKSUM_SIZE bytes.
FrameSum(buffer) == SumBytes(Take(buffer, OUTPUT_FRAME_SIZE - CHECKSUM_SIZE))

\* The field at wire offset `offset` (0-based), read as a big-endian u16.
FieldAt(buffer, offset) == from_be_bytes(buffer[offset + 1], buffer[offset + 2])

\* The record from_buffer populates before it compares the checksum.
OutputFrame(buffer) ==
    [ start1       |-> buffer[1],
      start2       |-> buffer[2],
      frame_length |-> FieldAt(buffer, 2),
      pm1_0        |-> FieldAt(buffer, 4),
      pm2_5        |-> FieldAt(buffer, 6),
      pm10         |-> FieldAt(buffer, 8),
      pm1_0_atm    |-> FieldAt(buffer, 10),
      pm2_5_atm    |-> FieldAt(buffer, 12),
      pm10_atm     |-> FieldAt(buffer, 14),
      beyond_0_3   |-> FieldAt(buffer, 16),
      beyond_0_5   |-> FieldAt(buffer, 18),
      beyond_1_0   |-> FieldAt(buffer, 20),
      beyond_2_5   |-> FieldAt(buffer, 22),
      beyond_5_0   |-> FieldAt(buffer, 24),
      beyond_10_0  |-> FieldAt(buffer, 26),
      reserved     |-> FieldAt(buffer, 28),
      check        |-> FieldAt(buffer, 30) ]

\* Mutant of ChecksumMismatch: only the low byte of the sum is compared.
ChecksumMismatch_low_byte(buffer) ==
    FrameSum(buffer) % 256 # OutputFrame(buffer).check % 256

\* sum != frame.check as usize
ChecksumMismatch(buffer) == FrameSum(buffer) # OutputFrame(buffer).check

\* Result<OutputFrame, Error>: kind names the variant, frame holds the record
\* of an Ok and is empty otherwise.
from_buffer(buffer) ==
    IF ChecksumMismatch(buffer)
    THEN [kind |-> "ChecksumError", frame |-> <<>>]
    ELSE [kind |-> "Ok", frame |-> <<OutputFrame(buffer)>>]

(***************************************************************************)
(* Results of the engine's operations.                                     *)
(***************************************************************************)
Res(kind, err) == [kind |-> kind, err |-> err]
NoResult == Res("none", "none")
Pending == Res("pending", "none")
Ok == Res("Ok", "none")
\* Mutant of ReadError: the transport's failure is not the one wrapped.
ReadError_unwrapped(e) == Res("Read", "UnexpectedEof")
ReadError(e) == Res("Read", e)       \* Error::Read(ReadExactError)
ChecksumError == Res("ChecksumError", "none")
IncorrectResponse == Res("IncorrectResponse", "none")
NoResponse == Res("NoResponse", "none")

\* Mutant of ResponseOps: sleep() does not wait for a response.
ResponseOps_no_sleep == {"passive", "active"}

\* The operations that call receive_response after send_cmd.
ResponseOps == {"sleep", "passive", "active"}

\* Mutant of CommandOf: wake() sends the sleep command (data 0).
CommandOf_wake_data0(o) ==
    CASE o = "sleep"   -> create_command(228, 0)
      [] o = "wake"    -> create_command(228, 0)
      [] o = "passive" -> create_command(225, 0)
      [] o = "active"  -> create_command(225, 1)
      [] o = "request" -> create_command(226, 0)

\* The command frame each operation sends.
CommandOf(o) ==
    CASE o = "sleep"   -> create_command(228, 0)
      [] o = "wake"    -> create_command(228, 1)
      [] o = "passive" -> create_command(225, 0)
      [] o = "active"  -> create_command(225, 1)
      [] o = "request" -> create_command(226, 0)

\* The template each operation hands to receive_response.
ExpectedResponse(o) ==
    CASE o = "sleep"   -> SLEEP_RESPONSE
      [] o = "passive" -> PASSIVE_MODE_RESPONSE
      [] o = "active"  -> ACTIVE_MODE_RESPONSE

\* Mutant of receive_response: the response's own checksum is validated
\* before the comparison.
receive_response_checksum(buffer, expected_response) ==
    IF SumBytes(Take(buffer, RESPONSE_FRAME_SIZE - CHECKSUM_SIZE))
         # from_be_bytes(buffer[RESPONSE_FRAME_SIZE - 1], buffer[RESPONSE_FRAME_SIZE])
    THEN ChecksumError
    ELSE IF buffer # expected_response THEN IncorrectResponse ELSE Ok

\* receive_response: compares the buffer read with the template.
receive_response(buffer, expected_response) ==
    IF buffer # expected_response THEN IncorrectResponse ELSE Ok

\* Mutant of BufferSize: a response is read into a buffer of the size of an
\* output frame.
BufferSize_output(o) == OUTPUT_FRAME_SIZE

\* The buffer length each operation hands to read_from_device.
BufferSize(o) == IF o = "read" THEN OUTPUT_FRAME_SIZE ELSE RESPONSE_FRAME_SIZE

(***************************************************************************)
(* The transport (embedded-io Read + Write), as the engine uses it.        *)
(*                                                                         *)
(* read_exact(n) on pending input `stream` ends in one of three ways: it   *)
(* delivers the first n bytes; the stream ends before n bytes were read    *)
(* (ReadExactError::UnexpectedEof, the bytes that were there are gone); or *)
(* the channel fails (ReadExactError::Other) after some k < n bytes.       *)
(* write_all(bytes) either accepts all the bytes or fails after k of them. *)
(*                                                                         *)
(* link says what the receiving side is: "eof" is a finite source, whose   *)
(* end is UnexpectedEof; "open" is a live serial line, on which a read     *)
(* with too few bytes pending blocks (it has no outcome unless the channel *)
(* fails); "failing" is a receiver every read of which fails at once.      *)
(***************************************************************************)
Min(a, b) == IF a < b THEN a ELSE b

ReadOutcome(status, data, rest) == [status |-> status, data |-> data, rest |-> rest]

read_exact(stream, n) ==
    IF link = "failing"
    THEN { ReadOutcome("Other", <<>>, stream) }
    ELSE (IF Len(stream) >= n
          THEN { ReadOutcome("Ok", Take(stream, n), Drop(stream, n)) }
          ELSE IF link = "eof"
               THEN { ReadOutcome("UnexpectedEof", <<>>, <<>>) }
               ELSE {})
         \cup
         { ReadOutcome("Other", <<>>, Drop(stream, k)) : k \in 0..Min(Len(stream), n - 1) }

WriteOutcome(status, sent) == [status |-> status, sent |-> sent]

write_all(bytes) ==
    { WriteOutcome("Ok", bytes) }
    \cup
    { WriteOutcome("Err", Take(bytes, k)) : k \in 0..(Len(bytes) - 1) }

(***************************************************************************)
(* Inputs: what the sensor puts on the wire.                               *)
(***************************************************************************)
BE16(v) == <<v \div 256, v % 256>>

\* The sensor's acknowledgements (datasheet values).
PassiveAck == <<66, 77, 0, 4, 225, 0, 1, 116>>
ActiveAck == <<66, 77, 0, 4, 225, 1, 1, 117>>
SleepAck == <<66, 77, 0, 4, 228, 0, 1, 119>>
Acks == {PassiveAck, ActiveAck, SleepAck}

\* Measurement frames: 28 body bytes generated from a seed, followed by the
\* sum of the 30 bytes before it, displaced by delta (0: a valid frame).
Body(seed) == [i \in 1..28 |-> (seed * (19 * i + 5)) % 256]
CheckDeltas == {0, 1, 256}
MeasFrame(seed, delta) ==
    LET head == <<66, 77>> \o Body(seed)
    IN  head \o BE16((SumBytes(head) + delta) % U16)
MeasFrames == {MeasFrame(s, d) : s \in 0..MaxSeed, d \in CheckDeltas}

NoiseBytes == {0, 66, 77}
Noise == UNION {[1..n -> NoiseBytes] : n \in 0..MaxNoise}

FirstFrames == Acks \cup MeasFrames
SecondFrames == {<<>>} \cup Acks \cup {MeasFrame(MaxSeed, 0)}
Streams == {n \o f \o g : n \in Noise, f \in FirstFrames, g \in SecondFrames}

(***************************************************************************)
(* The engine: PmsX003Sensor.                                              *)
(***************************************************************************)
Init ==
    /\ rx \in Streams
    /\ tx = <<>>
    /\ pc = "idle"
    /\ op = "none"
    /\ buf = <<>>
    /\ result = NoResult
    /\ frame = <<>>
    /\ rx0 = rx
    /\ nread = 0
    /\ start = 0
    /\ nops = 0
    /\ io = "none"
    /\ prevRead = <<>>
    /\ link = "eof"
    /\ codecIn = <<>>
    /\ codecOut = <<>>

\* A public operation is called: the engine is between operations.
Call(o, first) ==
    /\ pc = "idle"
    /\ nops < MaxOps
    /\ op' = o
    /\ pc' = first
    /\ nops' = nops + 1
    /\ result' = Pending
    /\ frame' = <<>>
    /\ rx0' = rx
    /\ tx' = <<>>
    /\ nread' = 0
    /\ start' = 0
    /\ io' = "none"
    /\ prevRead' = IF op = "read" /\ result = Ok THEN buf ELSE <<>>
    /\ UNCHANGED <<rx, link, codecVars>>

\* read(): read_from_device([0; OUTPUT_FRAME_SIZE]) comes first.
read == Call("read", "mn1") /\ buf' = Zeros(BufferSize("read"))
\* The command operations: send_cmd(create_command(..)) comes first.
sleep == Call("sleep", "send_cmd") /\ buf' = <<>>
wake == Call("wake", "send_cmd") /\ buf' = <<>>
passive == Call("passive", "send_cmd") /\ buf' = <<>>
active == Call("active", "send_cmd") /\ buf' = <<>>
request == Call("request", "send_cmd") /\ buf' = <<>>

\* The operation returns r to its caller.
Return(r) ==
    /\ result' = r
    /\ pc' = "idle"

\* Mutant of send_cmd_result: the write error is passed on as Error::Write.
send_cmd_result_write(status) == IF status = "Ok" THEN Ok ELSE Res("Write", status)

\* send_cmd: Ok(()) => Ok(()), Err(_) => Err(Error::NoResponse).
send_cmd_result(status) == IF status = "Ok" THEN Ok ELSE NoResponse

\* Mutant of AfterSend: the result of send_cmd is ignored by sleep(),
\* passive() and active().
AfterSend_ignore(o, r) == IF o \in ResponseOps THEN "mn1" ELSE "idle"

\* Where the operation goes after send_cmd returned r: the `?` of sleep(),
\* passive() and active() returns an error at once and goes on to
\* receive_response otherwise; wake() and request() return r.
AfterSend(o, r) == IF r = Ok /\ o \in ResponseOps THEN "mn1" ELSE "idle"

\* send_cmd: write_all of the command frame; a failure is NoResponse.  After
\* a successful write wake() and request() return, the others go on to
\* receive_response, which starts read_from_device([0; RESPONSE_FRAME_SIZE]).
send_cmd ==
    /\ pc = "send_cmd"
    /\ \E w \in write_all(CommandOf(op)) :
          /\ tx' = tx \o w.sent
          /\ io' = IF w.status = "Ok" THEN "Ok" ELSE "WriteErr"
          /\ pc' = AfterSend(op, send_cmd_result(w.status))
          /\ IF pc' = "idle"
             THEN result' = send_cmd_result(w.status) /\ buf' = buf
             ELSE result' = result /\ buf' = Zeros(BufferSize(op))
    /\ UNCHANGED <<rx, op, frame, rx0, nread, start, nops, prevRead, link, codecVars>>

\* Mutant of ScanFirst: the scan gives up at the first byte that is not MN1.
ScanFirst_give_up(b) == IF b = MN1 THEN "mn2" ELSE "idle"

\* Where read_from_device goes after reading byte b while looking for MN1.
ScanFirst(b) == IF b = MN1 THEN "mn2" ELSE "mn1"

\* Mutant of ScanSecond: any byte after MN1 is taken as the frame start.
ScanSecond_accept_any(b) == "rest"

\* Mutant of ScanSecond: a rejected byte that is MN1 is taken as a new start.
ScanSecond_retry(b) == IF b = MN2 THEN "rest" ELSE IF b = MN1 THEN "mn2" ELSE "mn1"

\* Where read_from_device goes after reading byte b right after an MN1.
ScanSecond(b) == IF b = MN2 THEN "rest" ELSE "mn1"

\* read_from_device, inner loop: read one byte until it is MN1.
read_from_device_mn1 ==
    /\ pc = "mn1"
    /\ \E r \in read_exact(rx, 1) :
          /\ rx' = r.rest
          /\ nread' = nread + (Len(rx) - Len(r.rest))
          /\ io' = r.status
          /\ IF r.status # "Ok"
             THEN Return(ReadError(r.status)) /\ start' = start
             ELSE /\ pc' = ScanFirst(r.data[1])
                  /\ start' = IF pc' = "mn2" THEN nread + 1 ELSE start
                  /\ result' = result
    /\ UNCHANGED <<tx, op, buf, frame, rx0, nops, prevRead, link, codecVars>>

\* Mutant of SetMagic: the magic numbers are not stored in the buffer.
SetMagic_skipped(buffer) == buffer

\* buf[0] = MN1; buf[1] = MN2;
SetMagic(buffer) == [buffer EXCEPT ![1] = MN1, ![2] = MN2]

\* read_from_device: read the byte after MN1; MN2 confirms the frame start
\* and the two magic numbers are set in the buffer, anything else sends the
\* outer loop back to looking for MN1.
read_from_device_mn2 ==
    /\ pc = "mn2"
    /\ \E r \in read_exact(rx, 1) :
          /\ rx' = r.rest
          /\ nread' = nread + (Len(rx) - Len(r.rest))
          /\ io' = r.status
          /\ IF r.status # "Ok"
             THEN Return(ReadError(r.status)) /\ buf' = buf
             ELSE /\ pc' = ScanSecond(r.data[1])
                  /\ buf' = IF pc' = "rest" THEN SetMagic(buf) ELSE buf
                  /\ result' = result
    /\ UNCHANGED <<tx, op, frame, rx0, start, nops, prevRead, link, codecVars>>

\* Mutant of RestLen: one byte more than the buffer has room for is read.
RestLen_ahead(buffer) == Len(buffer) - 1

\* The length of buf[2..], the bytes read_exact is asked for.
RestLen(buffer) == Len(buffer) - 2

\* Mutant of FillRest: the rest is read into buf[1..] (off by one).
FillRest_off_by_one(buffer, data) == Take(buffer, 1) \o data \o <<0>>

\* buf[2..] after read_exact delivered `data` into it.
FillRest(buffer, data) == Take(buffer, 2) \o data

\* What the caller of read_from_device does with the buffer it returned:
\* read() decodes it, the others compare it with their template.
Finish(o, buffer) ==
    IF o = "read"
    THEN LET d == from_buffer(buffer)
         IN  [result |-> Res(d.kind, "none"), frame |-> d.frame]
    ELSE [result |-> receive_response(buffer, ExpectedResponse(o)), frame |-> <<>>]

\* Mutant of AfterResult: a frame that fails its check is dropped and the
\* read is tried again.
AfterResult_retry(r) ==
    IF r.kind \in {"ChecksumError", "IncorrectResponse"} THEN "mn1" ELSE "idle"

\* Where the operation goes with the result r of from_buffer or of the
\* comparison: it returns it, whatever it is.
AfterResult(r) == "idle"

\* read_from_device: read_exact(&mut buf[2..]), then return the buffer.
read_from_device_rest ==
    /\ pc = "rest"
    /\ \E r \in read_exact(rx, RestLen(buf)) :
          /\ rx' = r.rest
          /\ nread' = nread + (Len(rx) - Len(r.rest))
          /\ io' = r.status
          /\ IF r.status # "Ok"
             THEN Return(ReadError(r.status)) /\ buf' = buf /\ frame' = frame
             ELSE /\ buf' = FillRest(buf, r.data)
                  /\ result' = Finish(op, buf').result
                  /\ frame' = Finish(op, buf').frame
                  /\ pc' = AfterResult(result')
    /\ UNCHANGED <<tx, op, rx0, start, nops, prevRead, link, codecVars>>

Next ==
    \/ read
    \/ sleep
    \/ wake
    \/ passive
    \/ active
    \/ request
    \/ send_cmd
    \/ read_from_device_mn1
    \/ read_from_device_mn2
    \/ read_from_device_rest

Spec == Init /\ [][Next]_vars

(***************************************************************************)
(* Blocking and termination.  read_exact and write_all block the caller    *)
(* until the transport completes the call.  The link tells what the        *)
(* transport does once the pending bytes run out: "eof" fails with         *)
(* UnexpectedEof, "open" delivers nothing more and keeps the caller        *)
(* blocked, "failing" fails every read.                                    *)
(***************************************************************************)
\* The pending bytes of these specifications: noise alone, or noise and one
\* frame, a sleep acknowledgement or a valid measurement.
LiveStreams == Noise \cup {n \o f : n \in Noise, f \in {SleepAck, MeasFrame(0, 0)}}

\* A sensor on a transport of one of the given kinds, no operation called.
Attached(links) ==
    /\ rx \in LiveStreams
    /\ tx = <<>>
    /\ pc = "idle"
    /\ op = "none"
    /\ buf = <<>>
    /\ result = NoResult
    /\ frame = <<>>
    /\ rx0 = rx
    /\ nread = 0
    /\ start = 0
    /\ nops = 0
    /\ io = "none"
    /\ prevRead = <<>>
    /\ link \in links
    /\ codecIn = <<>>
    /\ codecOut = <<>>

\* PmsX003Sensor::new(uart) on a transport that ends or that stays open.
LiveInit == Attached({"eof", "open"})

\* A transport call that the transport can complete does complete: the
\* code is sequential and does nothing else between two calls.  A failure
\* the transport raises of its own accord ("Other" on a link that is not
\* failing) may happen but is never bound to.
Progress ==
    /\ \/ send_cmd
       \/ read_from_device_mn1
       \/ read_from_device_mn2
       \/ read_from_device_rest
    /\ io' = "Other" => link = "failing"

LiveSpec == LiveInit /\ [][Next]_vars /\ WF_vars(Progress)

\* PmsX003Sensor::new_tx_rx(tx, rx): a sensor on a transmit half and a
\* receive half; the receive half may be one whose every read fails.
new_tx_rx == Attached({"failing", "eof", "open"})

SplitSpec == new_tx_rx /\ [][Next]_vars /\ WF_vars(Progress)

(***************************************************************************)
(* The codec on its own: create_command and OutputFrame::from_buffer       *)
(* applied to inputs drawn from bounded sets.                              *)
(***************************************************************************)
CmdBytes == {0, 225, 226, 228, 255}
DataValues == {0, 1, 255, 256, 257, 4660, 65535}

\* 32-byte buffers: the generated measurement frames with each of their two
\* leading bytes replaced, and a buffer of thirty 0xFF bytes, the largest sum.
LeadBytes == {0, 66, 77, 255}
WithLead(f, a, b) == <<a, b>> \o SubSeq(f, 3, OUTPUT_FRAME_SIZE - CHECKSUM_SIZE)
Sealed(head, delta) == head \o BE16((SumBytes(head) + delta) % U16)
DecodeInputs ==
    { Sealed(WithLead(MeasFrame(s, 0), a, b), d) :
        s \in 0..MaxSeed, a \in LeadBytes, b \in LeadBytes, d \in CheckDeltas }
    \cup
    { Sealed([i \in 1..30 |-> 255], d) : d \in CheckDeltas }

CodecInit ==
    /\ rx = <<>>
    /\ tx = <<>>
    /\ pc = "idle"
    /\ op = "none"
    /\ buf = <<>>
    /\ result = NoResult
    /\ frame = <<>>
    /\ rx0 = <<>>
    /\ nread = 0
    /\ start = 0
    /\ nops = 0
    /\ io = "none"
    /\ prevRead = <<>>
    /\ link = "eof"
    /\ codecIn = [fn |-> "none"]
    /\ codecOut = <<>>

Encode ==
    /\ \E cmd \in CmdBytes, data \in DataValues :
          /\ codecIn' = [fn |-> "create_command", cmd |-> cmd, data |-> data]
          /\ codecOut' = create_command(cmd, data)
    /\ UNCHANGED engineVars

Decode ==
    /\ \E buffer \in DecodeInputs :
          /\ codecIn' = [fn |-> "from_buffer", buffer |-> buffer]
          /\ codecOut' = from_buffer(buffer)
    /\ UNCHANGED engineVars

CodecNext == Encode \/ Decode

CodecSpec == CodecInit /\ [][CodecNext]_vars

(***************************************************************************)
(* Vocabulary of the properties.                                           *)
(***************************************************************************)
ReadingOps == {"read"} \cup ResponseOps

\* The running operation has returned to its caller.
Done(o) == pc = "idle" /\ op = o /\ result.kind \notin {"none", "pending"}

\* read_from_device returned Ok(buffer) to the operation.
Returned ==
    /\ pc = "idle"
    /\ op \in ReadingOps
    /\ result.kind \in {"Ok", "ChecksumError", "IncorrectResponse"}

\* The operation got as far as read_from_device and that call has ended.
ResyncEnded ==
    /\ pc = "idle"
    /\ op \in ReadingOps
    /\ result.kind \in {"Ok", "ChecksumError", "IncorrectResponse", "Read"}

\* The stream the operation started on holds MN1 MN2 right after its first
\* n bytes and at least a whole frame of L bytes from there.
FrameAfter(n, L) ==
    /\ Len(rx0) >= n + L
    /\ rx0[n + 1] = MN1
    /\ rx0[n + 2] = MN2

\* Every 0x42 of the noise is followed, inside the noise, by a byte that is
\* neither 0x42 nor 0x4D.
CleanNoise(s) ==
    \A i \in 1..Len(s) :
        s[i] = MN1 => (i < Len(s) /\ s[i + 1] \notin {MN1, MN2})

\* The resynchronizing read returned the L bytes after the first n, having
\* consumed exactly the first n + L bytes.
ReturnedFrameAt(n, L) ==
    /\ Returned
    /\ buf = SubSeq(rx0, n + 1, n + L)
    /\ nread = n + L
    /\ rx = Drop(rx0, n + L)

(***************************************************************************)
(* C1 as stated: whatever the noise bytes in front of a magic pair and its *)
(* body are, the resynchronizing read returns exactly that frame.          *)
(***************************************************************************)
C1_AnyNoise ==
    ResyncEnded =>
        \A n \in 0..(Len(rx0) - BufferSize(op)) :
            FrameAfter(n, BufferSize(op))
                => (result = ReadError("Other") \/ ReturnedFrameAt(n, BufferSize(op)))

(***************************************************************************)
(* C1 amended: when every 0x42 among the noise bytes is followed, within   *)
(* the noise, by a byte other than 0x42 and 0x4D, the resynchronizing read *)
(* (L = 32 for read, L = 8 for a response) returns exactly the frame after *)
(* the noise and has consumed the noise and the frame, unless the          *)
(* transport fails.                                                        *)
(***************************************************************************)
C1_Resync ==
    ResyncEnded =>
        \A n \in 0..(Len(rx0) - BufferSize(op)) :
            (FrameAfter(n, BufferSize(op)) /\ CleanNoise(Take(rx0, n)))
                => (result = ReadError("Other") \/ ReturnedFrameAt(n, BufferSize(op)))

\* A read() that skipped a false start (0x42 0x00) and returned the frame.
C1_Witness ==
    /\ Done("read")
    /\ Take(rx0, 2) = <<MN1, 0>>
    /\ FrameAfter(2, OUTPUT_FRAME_SIZE)
    /\ ReturnedFrameAt(2, OUTPUT_FRAME_SIZE)

(***************************************************************************)
(* C2 as stated: passive() returns success whenever the command write      *)
(* succeeds and the frame the resynchronizing read obtains is the          *)
(* passive-mode acknowledgement 42 4D 00 04 E1 00 01 74.                   *)
(***************************************************************************)
C2_PassiveAcknowledged ==
    (Done("passive") /\ Returned /\ buf = <<66, 77, 0, 4, 225, 0, 1, 116>>)
        => result = Ok

(***************************************************************************)
(* C3: active() and sleep() return success exactly when the whole command  *)
(* frame was written (0xE1 data 1, 0xE4 data 0) and the 8-byte frame read  *)
(* equals the template (42 4D 00 04 E1 01 01 75, 42 4D 00 04 E4 00 01 77); *)
(* any other 8-byte frame read yields IncorrectResponse.                   *)
(***************************************************************************)
C3_Command(o) ==
    IF o = "active" THEN <<66, 77, 225, 0, 1, 1, 113>> ELSE <<66, 77, 228, 0, 0, 1, 115>>
C3_Template(o) ==
    IF o = "active" THEN <<66, 77, 0, 4, 225, 1, 1, 117>> ELSE <<66, 77, 0, 4, 228, 0, 1, 119>>

C3_ActiveSleep ==
    \A o \in {"active", "sleep"} :
        Done(o) =>
            /\ result = Ok <=> (tx = C3_Command(o) /\ Returned /\ buf = C3_Template(o))
            /\ (Returned /\ buf # C3_Template(o)) => result = IncorrectResponse

\* active() succeeded on its acknowledgement, found behind noise.
C3_Witness ==
    /\ Done("active")
    /\ result = Ok
    /\ nread > RESPONSE_FRAME_SIZE
    /\ buf = <<66, 77, 0, 4, 225, 1, 1, 117>>

(***************************************************************************)
(* C4: from_buffer on a 32-byte buffer whose bytes 30-31 are the           *)
(* big-endian sum of bytes 0-29 succeeds, and every field of the record is *)
(* the big-endian value of its wire slice.                                 *)
(***************************************************************************)
C4_Wire(b, offset) == b[offset + 1] * 256 + b[offset + 2]
C4_ValidChecksum(b) == SumBytes(SubSeq(b, 1, 30)) = C4_Wire(b, 30)

C4_DecodeFields ==
    (codecIn.fn = "from_buffer" /\ C4_ValidChecksum(codecIn.buffer)) =>
        /\ codecOut.kind = "Ok"
        /\ Len(codecOut.frame) = 1
        /\ LET f == codecOut.frame[1]
               b == codecIn.buffer
           IN  /\ f.start1 = b[1]
               /\ f.start2 = b[2]
               /\ f.frame_length = C4_Wire(b, 2)
               /\ f.pm1_0 = C4_Wire(b, 4)
               /\ f.pm2_5 = C4_Wire(b, 6)
               /\ f.pm10 = C4_Wire(b, 8)
               /\ f.pm1_0_atm = C4_Wire(b, 10)
               /\ f.pm2_5_atm = C4_Wire(b, 12)
               /\ f.pm10_atm = C4_Wire(b, 14)
               /\ f.beyond_0_3 = C4_Wire(b, 16)
               /\ f.beyond_0_5 = C4_Wire(b, 18)
               /\ f.beyond_1_0 = C4_Wire(b, 20)
               /\ f.beyond_2_5 = C4_Wire(b, 22)
               /\ f.beyond_5_0 = C4_Wire(b, 24)
               /\ f.beyond_10_0 = C4_Wire(b, 26)
               /\ f.reserved = C4_Wire(b, 28)
               /\ f.check = C4_Wire(b, 30)

\* A valid buffer with distinct high and low bytes in a field was decoded.
C4_Witness ==
    /\ codecIn.fn = "from_buffer"
    /\ C4_ValidChecksum(codecIn.buffer)
    /\ codecIn.buffer[7] # codecIn.buffer[8]
    /\ codecOut.kind = "Ok"
    /\ codecOut.frame[1].pm2_5 > 255

(***************************************************************************)
(* C5: when read() obtains a 32-byte frame whose bytes 30-31 differ from   *)
(* the sum of bytes 0-29 it fails with ChecksumError and returns no        *)
(* record; a record read() returns always satisfies the checksum           *)
(* invariant.                                                              *)
(***************************************************************************)
C5_Sum(b) == SumBytes(SubSeq(b, 1, 30))
C5_Check(b) == b[31] * 256 + b[32]

C5_ChecksumRejected ==
    /\ (Done("read") /\ Returned /\ C5_Sum(buf) # C5_Check(buf))
          => (result = ChecksumError /\ frame = <<>>)
    /\ frame # <<>> =>
          /\ Done("read")
          /\ result = Ok
          /\ frame[1].check = C5_Sum(buf)
          /\ frame[1].check = C5_Check(buf)

\* read() obtained a frame whose checksum is off in its high byte only.
C5_Witness ==
    /\ Done("read")
    /\ Returned
    /\ C5_Check(buf) = C5_Sum(buf) + 256
    /\ result = ChecksumError
    /\ frame = <<>>

(***************************************************************************)
(* C6: a 0x42 followed by a byte other than 0x4D never becomes the start   *)
(* of the returned frame, and after such a false start the scan for the    *)
(* first magic byte goes on from the byte after the rejected one.          *)
(***************************************************************************)
FalseStartAt(i) ==
    /\ i >= 1
    /\ i < Len(rx0)
    /\ rx0[i] = MN1
    /\ rx0[i + 1] # MN2

C6_NoFrameAtFalseStart ==
    Returned =>
        /\ start = nread - BufferSize(op) + 1
        /\ ~FalseStartAt(start)
        /\ buf = SubSeq(rx0, start, nread)

C6_ScanResumes ==
    (pc = "mn2" /\ rx # <<>> /\ Head(rx) # MN2 /\ pc' # "idle")
        => (pc' = "mn1" /\ rx' = Tail(rx) /\ buf' = buf)

C6_FalseStart == [](C6_NoFrameAtFalseStart) /\ [][C6_ScanResumes]_vars

\* A frame was returned although the stream began with a false start.
C6_Witness ==
    /\ Returned
    /\ FalseStartAt(1)
    /\ start > 2

(***************************************************************************)
(* C7: passive(), active() and sleep() never return ChecksumError, and     *)
(* passive() that reads the active-mode acknowledgement                    *)
(* 42 4D 00 04 E1 01 01 75 fails with IncorrectResponse.                   *)
(***************************************************************************)
C7_NoChecksumError ==
    /\ \A o \in {"passive", "active", "sleep"} :
          Done(o) => result.kind # "ChecksumError"
    /\ (Done("passive") /\ Returned /\ buf = <<66, 77, 0, 4, 225, 1, 1, 117>>)
          => result = IncorrectResponse

\* passive() read the active-mode acknowledgement.
C7_Witness ==
    /\ Done("passive")
    /\ Returned
    /\ buf = <<66, 77, 0, 4, 225, 1, 1, 117>>
    /\ result = IncorrectResponse

(***************************************************************************)
(* C8: wake() and request() never read: the pending input stays as it was  *)
(* when they were called; when the transport accepts the whole write they  *)
(* return success, having written exactly 42 4D E4 00 01 01 74 (wake) or   *)
(* 42 4D E2 00 00 01 71 (request).                                         *)
(***************************************************************************)
C8_Command(o) ==
    IF o = "wake" THEN <<66, 77, 228, 0, 1, 1, 116>> ELSE <<66, 77, 226, 0, 0, 1, 113>>

C8_WriteOnly ==
    \A o \in {"wake", "request"} :
        op = o =>
            /\ rx = rx0
            /\ nread = 0
            /\ (Done(o) /\ Len(tx) = CMD_FRAME_SIZE) => (result = Ok /\ tx = C8_Command(o))
            /\ (Done(o) /\ result = Ok) => tx = C8_Command(o)

\* wake() succeeded with input pending on the transport.
C8_Witness ==
    /\ Done("wake")
    /\ result = Ok
    /\ tx = <<66, 77, 228, 0, 1, 1, 116>>
    /\ rx # <<>>
    /\ rx = rx0

(***************************************************************************)
(* C9 as stated: create_command(0xE1, 1) is 42 4D E1 00 01 01 70.          *)
(***************************************************************************)
C9_Stated ==
    (codecIn.fn = "create_command" /\ codecIn.cmd = 225 /\ codecIn.data = 1)
        => codecOut = <<66, 77, 225, 0, 1, 1, 112>>

(***************************************************************************)
(* C9 amended: create_command(0xE1, 1) is always 42 4D E1 00 01 01 71,     *)
(* its last two bytes being the big-endian checksum                        *)
(* 0x42 + 0x4D + 0xE1 + 0x00 + 0x01 = 0x0171.                              *)
(***************************************************************************)
C9_Encoding ==
    (codecIn.fn = "create_command" /\ codecIn.cmd = 225 /\ codecIn.data = 1) =>
        /\ codecOut = <<66, 77, 225, 0, 1, 1, 113>>
        /\ codecOut[6] * 256 + codecOut[7] = 66 + 77 + 225 + 0 + 1

\* create_command(0xE1, 1) was computed.
C9_Witness ==
    /\ codecIn.fn = "create_command"
    /\ codecIn.cmd = 225
    /\ codecIn.data = 1
    /\ Len(codecOut) = CMD_FRAME_SIZE

(***************************************************************************)
(* C10: create_command(cmd, data) is 0x42, 0x4D, cmd, data high, data low, *)
(* checksum high, checksum low, the checksum being the sum of bytes 0-4;   *)
(* reading byte 2 as the command and bytes 3-4 as big-endian data gives    *)
(* back cmd and data, and the sum of bytes 0-4 equals bytes 5-6.           *)
(***************************************************************************)
C10_RoundTrip ==
    codecIn.fn = "create_command" =>
        LET f == codecOut
            sum == 66 + 77 + codecIn.cmd + (codecIn.data \div 256) + (codecIn.data % 256)
        IN  /\ Len(f) = 7
            /\ f = <<66, 77, codecIn.cmd, codecIn.data \div 256, codecIn.data % 256,
                     sum \div 256, sum % 256>>
            /\ f[3] = codecIn.cmd
            /\ f[4] * 256 + f[5] = codecIn.data
            /\ (f[1] + f[2] + f[3] + f[4] + f[5]) % 65536 = f[6] * 256 + f[7]

\* A command whose data has distinct high and low bytes was encoded.
C10_Witness ==
    /\ codecIn.fn = "create_command"
    /\ codecIn.data = 4660
    /\ codecOut[4] = 18
    /\ codecOut[5] = 52

(***************************************************************************)
(* C11: a transport write failure in request(), wake(), passive(),         *)
(* active() or sleep() ends the operation with NoResponse; NoResponse has  *)
(* no other cause, and no operation ever returns Error::Write.             *)
(***************************************************************************)
C11_WriteFailure ==
    /\ io = "WriteErr" =>
          /\ pc = "idle"
          /\ op \in {"request", "wake", "passive", "active", "sleep"}
          /\ result = NoResponse
    /\ result = NoResponse => io = "WriteErr"
    /\ result.kind # "Write"

\* active() ended on a write that failed after three bytes.
C11_Witness ==
    /\ Done("active")
    /\ io = "WriteErr"
    /\ Len(tx) = 3
    /\ result = NoResponse

(***************************************************************************)
(* C13: a transport read failure during the resynchronizing read, at any   *)
(* of its three stages, ends the operation at once with Error::Read        *)
(* wrapping that failure; no frame is returned and nothing more is read.   *)
(***************************************************************************)
ReadFailed == io \in {"UnexpectedEof", "Other"}

C13_Aborted ==
    ReadFailed =>
        /\ pc = "idle"
        /\ op \in ReadingOps
        /\ result = [kind |-> "Read", err |-> io]
        /\ frame = <<>>

C13_NothingMoreRead == ReadFailed => (rx' = rx /\ nread' <= nread)

C13_ReadFailureAborts == [](C13_Aborted) /\ [][C13_NothingMoreRead]_vars

\* The channel failed while the rest of a frame was being read, after the
\* magic pair and some of the body had been taken.
C13_Witness ==
    /\ Done("read")
    /\ io = "Other"
    /\ buf[1] = MN1
    /\ buf[2] = MN2
    /\ nread > start + 1
    /\ result = [kind |-> "Read", err |-> "Other"]

(***************************************************************************)
(* C14: the byte rejected after a 0x42 is not looked at again as a first   *)
(* magic byte: on a stream 0x42 0x42 0x4D <body> the frame that begins at  *)
(* the second 0x42 is not returned, and after rejecting a 0x42 the engine  *)
(* scans the bytes after it for the first magic byte.                      *)
(***************************************************************************)
C14_Stream == Len(rx0) >= 3 /\ rx0[1] = 66 /\ rx0[2] = 66 /\ rx0[3] = 77

C14_FrameAtSecondNotReturned ==
    (Returned /\ C14_Stream) => nread - BufferSize(op) + 1 > 3

C14_RejectedNotRetried ==
    (pc = "mn2" /\ rx # <<>> /\ Head(rx) = 66 /\ io' = "Ok")
        => (pc' = "mn1" /\ rx' = Tail(rx))

C14_NoRetry == [](C14_FrameAtSecondNotReturned) /\ [][C14_RejectedNotRetried]_vars

\* On 0x42 0x42 0x4D <body> the read went past the body and returned a later
\* frame.
C14_Witness ==
    /\ Returned
    /\ C14_Stream
    /\ nread - BufferSize(op) + 1 > 3

(***************************************************************************)
(* C15: a buffer returned by the resynchronizing read, of 32 bytes for     *)
(* read() and 8 for a response, begins with 0x42 0x4D, which are two       *)
(* consecutive bytes the transport delivered, and its other L-2 bytes are  *)
(* the next L-2 bytes delivered, in order; also after earlier operations.  *)
(***************************************************************************)
C15_FrameBoundary ==
    Returned =>
        LET L == IF op = "read" THEN 32 ELSE 8
            s == nread - L + 1
        IN  /\ Len(buf) = L
            /\ buf[1] = 66
            /\ buf[2] = 77
            /\ s >= 1
            /\ rx0[s] = 66
            /\ rx0[s + 1] = 77
            /\ \A i \in 3..L : buf[i] = rx0[s + i - 1]

\* A response was returned to the second operation called, from behind
\* bytes that were skipped.
C15_Witness ==
    /\ nops = 2
    /\ Returned
    /\ op = "sleep"
    /\ Len(buf) = 8
    /\ nread > 8

(***************************************************************************)
(* C16: integrity failures are not retried.  When the frame read() obtains *)
(* has a bad checksum it returns ChecksumError, and when the 8-byte frame  *)
(* passive(), active() or sleep() obtain differs from the template they    *)
(* return IncorrectResponse, in both cases having consumed exactly the     *)
(* bytes up to the end of that frame and having written the command at     *)
(* most once, whatever follows in the stream.                              *)
(***************************************************************************)
\* The templates as the source spells them (the one of passive() begins
\* with 0x42 0x42).
C16_Template(o) ==
    CASE o = "passive" -> <<66, 66, 0, 4, 225, 0, 1, 116>>
      [] o = "active"  -> <<66, 77, 0, 4, 225, 1, 1, 117>>
      [] o = "sleep"   -> <<66, 77, 0, 4, 228, 0, 1, 119>>

C16_Bad(o, f) ==
    IF o = "read"
    THEN SumBytes(SubSeq(f, 1, 30)) # f[31] * 256 + f[32]
    ELSE f # C16_Template(o)

C16_NotRetried ==
    (ResyncEnded /\ io # "Other") =>
        \A n \in 0..(Len(rx0) - BufferSize(op)) :
            ( /\ FrameAfter(n, BufferSize(op))
              /\ CleanNoise(Take(rx0, n))
              /\ C16_Bad(op, SubSeq(rx0, n + 1, n + BufferSize(op))) )
            => /\ result = IF op = "read" THEN ChecksumError ELSE IncorrectResponse
               /\ frame = <<>>
               /\ nread = n + BufferSize(op)
               /\ rx = Drop(rx0, n + BufferSize(op))
               /\ Len(tx) = IF op = "read" THEN 0 ELSE CMD_FRAME_SIZE

\* read() returned ChecksumError and left a valid frame pending.
C16_Witness ==
    /\ Done("read")
    /\ result = ChecksumError
    /\ Len(rx) = 32
    /\ rx[1] = 66
    /\ rx[2] = 77
    /\ SumBytes(SubSeq(rx, 1, 30)) = rx[31] * 256 + rx[32]

(***************************************************************************)
(* C17: when a 32-byte measurement frame is pending in front of the sleep  *)
(* acknowledgement, sleep() takes the first 8 bytes of the measurement     *)
(* frame for the response and returns IncorrectResponse.                   *)
(***************************************************************************)
C17_MeasurementThenAck ==
    /\ Len(rx0) >= 40
    /\ rx0[1] = 66
    /\ rx0[2] = 77
    /\ SubSeq(rx0, 1, 8) # <<66, 77, 0, 4, 228, 0, 1, 119>>
    /\ SubSeq(rx0, 33, 40) = <<66, 77, 0, 4, 228, 0, 1, 119>>

C17_SleepRace ==
    (Done("sleep") /\ C17_MeasurementThenAck /\ io \notin {"WriteErr", "Other"}) =>
        /\ result = IncorrectResponse
        /\ buf = SubSeq(rx0, 1, 8)
        /\ nread = 8
        /\ rx = Drop(rx0, 8)

\* sleep() failed on a valid measurement frame with its acknowledgement
\* still pending behind the rest of that frame.
C17_Witness ==
    /\ Done("sleep")
    /\ C17_MeasurementThenAck
    /\ SumBytes(SubSeq(rx0, 1, 30)) = rx0[31] * 256 + rx0[32]
    /\ result = IncorrectResponse
    /\ SubSeq(rx, 25, 32) = <<66, 77, 0, 4, 228, 0, 1, 119>>

(***************************************************************************)
(* C19: no read-ahead.  A resynchronizing read that returns has consumed   *)
(* the stream up to the last byte of the returned frame and no further,    *)
(* nothing is consumed between operations, and a read() that follows a     *)
(* successful read() returns the frame that starts right after the first   *)
(* one when a whole frame is there.                                        *)
(***************************************************************************)
C19_ExactlyConsumed ==
    Returned =>
        /\ nread = start + (IF op = "read" THEN 32 ELSE 8) - 1
        /\ rx = Drop(rx0, nread)

C19_SecondRead ==
    (prevRead # <<>> /\ Done("read") /\ FrameAfter(0, 32) /\ io # "Other") =>
        /\ Returned
        /\ buf = SubSeq(rx0, 1, 32)
        /\ rx = Drop(rx0, 32)

C19_BetweenOperations == (pc = "idle" /\ pc' # "idle") => (rx' = rx /\ rx0' = rx)

C19_NoReadAhead ==
    [](C19_ExactlyConsumed /\ C19_SecondRead) /\ [][C19_BetweenOperations]_vars

\* Two read() calls in a row returned two different adjacent frames.
C19_Witness ==
    /\ prevRead # <<>>
    /\ Done("read")
    /\ result = Ok
    /\ buf = SubSeq(rx0, 1, 32)
    /\ buf # prevRead
    /\ rx = <<>>

(***************************************************************************)
(* C20: passive(), active() and sleep() read nothing before the whole      *)
(* 7-byte command frame is written, and when the write fails they return   *)
(* without reading: the pending input is as it was at the call.            *)
(***************************************************************************)
C20_Command(o) ==
    CASE o = "passive" -> <<66, 77, 225, 0, 0, 1, 112>>
      [] o = "active"  -> <<66, 77, 225, 0, 1, 1, 113>>
      [] o = "sleep"   -> <<66, 77, 228, 0, 0, 1, 115>>

C20_ReadBegun ==
    \/ pc \in {"mn1", "mn2", "rest"}
    \/ nread > 0
    \/ rx # rx0
    \/ io \in {"UnexpectedEof", "Other"}

C20_WriteFirst ==
    op \in {"passive", "active", "sleep"} =>
        /\ C20_ReadBegun => tx = C20_Command(op)
        /\ io = "WriteErr" => (pc = "idle" /\ ~C20_ReadBegun /\ Len(tx) < 7)

C20_NoReadBeforeWrite ==
    (op' \in {"passive", "active", "sleep"} /\ rx' # rx) => (tx = C20_Command(op') /\ tx' = tx)

C20_WriteBeforeRead == [](C20_WriteFirst) /\ [][C20_NoReadBeforeWrite]_vars

\* sleep() returned on a failed write with input pending.
C20_Witness ==
    /\ Done("sleep")
    /\ io = "WriteErr"
    /\ rx # <<>>
    /\ rx = rx0
    /\ result = NoResponse

(***************************************************************************)
(* C18: the resynchronizing read is unbounded.  It returns only when a     *)
(* transport read fails or when MN1 MN2 and the L-2 bytes after them have  *)
(* been read; on a transport that never fails and delivers no such frame   *)
(* it does not return; and it returns whenever the transport goes on to    *)
(* fail or to deliver MN1 MN2 and L-2 bytes.                               *)
(***************************************************************************)
C18_Scanning == pc \in {"mn1", "mn2", "rest"}

\* The transport has nothing left to complete the pending read with and
\* does not fail: the caller is blocked.
C18_Starved ==
    /\ C18_Scanning
    /\ link = "open"
    /\ Len(rx) < (IF pc = "rest" THEN Len(buf) - 2 ELSE 1)

C18_ReturnsOnly ==
    (C18_Scanning /\ pc' = "idle") =>
        \/ io' \in {"UnexpectedEof", "Other"} /\ result'.kind = "Read"
        \/ /\ pc = "rest"
           /\ io' = "Ok"
           /\ start' >= 1
           /\ rx0[start'] = 66
           /\ rx0[start' + 1] = 77
           /\ nread' = start' + Len(buf) - 1
           /\ buf' = SubSeq(rx0, start', nread')

C18_StaysBlocked == (C18_Starved /\ pc' # pc) => io' = "Other"

C18_Returns == C18_Scanning ~> (pc = "idle" \/ C18_Starved)

C18_Unbounded ==
    /\ [][C18_ReturnsOnly /\ C18_StaysBlocked]_vars
    /\ C18_Returns

\* read() is blocked after scanning a whole noise-only stream.
C18_Witness ==
    /\ op = "read"
    /\ C18_Starved
    /\ pc = "mn1"
    /\ rx0 # <<>>
    /\ nread = Len(rx0)

(***************************************************************************)
(* C12: on a sensor built from a transmit half and a receive half,         *)
(* sleep() with a write that succeeds and reads that all fail returns with *)
(* the read error; it does not block.                                      *)
(***************************************************************************)
C12_ReadErrorReturned ==
    (Done("sleep") /\ link = "failing" /\ io # "WriteErr") =>
        /\ result = [kind |-> "Read", err |-> "Other"]
        /\ tx = <<66, 77, 228, 0, 0, 1, 115>>
        /\ nread = 0

C12_Completes ==
    (op = "sleep" /\ link = "failing" /\ pc # "idle") ~> Done("sleep")

====
